---- MODULE Spec2Model ----
(***************************************************************************)
(* A model of gns/train_baseline.py (rollout, predict, train) and of       *)
(* gns.py (build_mlp).  The learned simulator, the data loaders and the    *)
(* process group are outside the two files: what they return is drawn      *)
(* from small sets.                                                        *)
(***************************************************************************)
EXTENDS Integers, Sequences, FiniteSets, TLC

\* ------------------------------------------------------------------ bounds

\* The largest nsteps handed to rollout().
MaxSteps == 2

\* ------------------------------------------------------ program constants

INPUT_SEQUENCE_LENGTH == 6

KINEMATIC_PARTICLE_ID == -1

\* ------------------------------------------------------------ value sets

\* The particles of one example (the first tensor axis).
Particles == {1, 2}

\* One-dimensional positions a network step or a label can hold.
PosValues == {0, 1}

\* A particle is kinematic or of the one learned type (NUM_PARTICLE_TYPES = 1).
ParticleTypeValues == {KINEMATIC_PARTICLE_ID, 0}

\* The position histories a data loader yields for one particle: one frame
\* more than the window, so that position[:, :INPUT_SEQUENCE_LENGTH] cuts.
TrajLen == INPUT_SEQUENCE_LENGTH + 1
Trajectories ==
  { [i \in 1..TrajLen |-> a + b * i] : a \in {0}, b \in {0, 1} }
     \cup { [i \in 1..TrajLen |-> 10 - i] }

None == [kind |-> "none", num |-> <<>>]

\* ---------------------------------------------------------- file names

\* A checkpoint file name <exp_id>-<kind>-<num>.pt, num a decimal numeral
\* (a sequence of digits); model_file and train_state_file may also hold
\* the word "latest", or None.
Latest == [kind |-> "latest", num |-> <<>>]

RECURSIVE StrOf(_)
\* str(step): the decimal numeral of a natural number.
StrOf(n) == IF n < 10 THEN <<n>> ELSE Append(StrOf(n \div 10), n % 10)

RECURSIVE IntOf(_)
\* int(digits): the value of a decimal numeral.
IntOf(ds) ==
  IF ds = <<>> THEN 0
  ELSE 10 * IntOf(SubSeq(ds, 1, Len(ds) - 1)) + ds[Len(ds)]

\* f'{exp_id}-model-{step}.pt'
ModelFile(n) == [kind |-> "model", num |-> StrOf(n)]

\* f'{exp_id}-train-state-{step}.pt'
TrainStateFile(n) == [kind |-> "train-state", num |-> StrOf(n)]

\* os.path.exists(model_path + name)
PathExists(fs, name) == name \in fs

\* The steps of the checkpoints an earlier run may have left in model_path.
StepPool == {0, 3, 10, 25}

VARIABLES
  \* rollout()
  rpc, position, label, particle_types, nsteps,
  initial_positions, current_positions, predictions, step_r, output_dict,
  \* predict()
  ppc, mode, p_model_file, p_loaded, output_path_exists,
  made_output_path, examples_read, rollout_files,
  \* the files in model_path
  files,
  \* train(): the flags and the data loader, then one entry per worker
  is_cuda, ntraining_steps, nsave_steps, nlog_steps, nbatches,
  model_file, train_state_file, used_latest, loaded, load_msg,
  tpc, step, batch_i, opt_steps, steps, writes, interrupted,
  \* build_mlp()
  mpc, mlp_args, mlp,
  \* the loss of one training step
  lpc, batch, loss

rvars == <<rpc, position, label, particle_types, nsteps,
           initial_positions, current_positions, predictions, step_r,
           output_dict>>
pvars == <<ppc, mode, p_model_file, p_loaded, output_path_exists,
           made_output_path, examples_read, rollout_files>>
tvars == <<is_cuda, ntraining_steps, nsave_steps, nlog_steps, nbatches,
           model_file, train_state_file, used_latest, loaded, load_msg,
           tpc, step, batch_i, opt_steps, steps, writes, interrupted>>
mvars == <<mpc, mlp_args, mlp>>
lvars == <<lpc, batch, loss>>
vars == <<rvars, pvars, tvars, mvars, lvars, files>>

\* The ranks of the process group: rank 1 runs only when is_cuda.
Ranks == {0, 1}

\* ----------------------------------------------------------------- rollout

\* position[:, :INPUT_SEQUENCE_LENGTH]
SliceWindow(pos) ==
  [p \in Particles |-> SubSeq(pos[p], 1, INPUT_SEQUENCE_LENGTH)]

\* The mask of kinematic particles; the loop computes it and never uses it.
KinematicMask(types) ==
  [p \in Particles |-> types[p] = KINEMATIC_PARTICLE_ID]

\* The position appended at one step: the torch.where that would put the
\* ground truth in for kinematic particles is commented out, so it is the
\* network's output for every particle.
NextPosition(net, truth, types) == net

\* ShiftWindow cutting with [:, :-1]: the newest entry is dropped.
ShiftWindowDropNewest(cur, nxt) ==
  [p \in Particles |->
     Append(SubSeq(cur[p], 1, Len(cur[p]) - 1), nxt[p])]

\* initial_positions.permute(1, 0, 2): the time axis first.
Permute(x) ==
  [t \in 1..INPUT_SEQUENCE_LENGTH |-> [p \in Particles |-> x[p][t]]]

\* torch.cat([current_positions[:, 1:], next_position[:, None, :]], dim=1)
ShiftWindow(cur, nxt) ==
  [p \in Particles |-> Append(Tail(cur[p]), nxt[p])]

\* train() is not running.
TrainIdle ==
  /\ is_cuda = FALSE
  /\ ntraining_steps = 0
  /\ nsave_steps = 1
  /\ nlog_steps = 1
  /\ nbatches = 0
  /\ model_file = [w \in Ranks |-> None]
  /\ train_state_file = [w \in Ranks |-> None]
  /\ used_latest = [w \in Ranks |-> FALSE]
  /\ loaded = [w \in Ranks |-> None]
  /\ load_msg = [w \in Ranks |-> None]
  /\ tpc = [w \in Ranks |-> "absent"]
  /\ step = [w \in Ranks |-> 0]
  /\ batch_i = [w \in Ranks |-> 0]
  /\ opt_steps = [w \in Ranks |-> 0]
  /\ steps = [w \in Ranks |-> <<>>]
  /\ writes = {}
  /\ interrupted = [w \in Ranks |-> FALSE]

\* build_mlp() is not running.
MlpIdle ==
  /\ mpc = "none"
  /\ mlp_args = None
  /\ mlp = None

\* No loss is being computed.
LossIdle ==
  /\ lpc = "none"
  /\ batch = None
  /\ loss = None

RolloutIdle ==
  /\ rpc = "idle"
  /\ position = [p \in Particles |-> <<>>]
  /\ label = [p \in Particles |-> 0]
  /\ particle_types = [p \in Particles |-> 0]
  /\ nsteps = 0
  /\ initial_positions = [p \in Particles |-> <<>>]
  /\ current_positions = [p \in Particles |-> <<>>]
  /\ predictions = <<>>
  /\ step_r = 0
  /\ output_dict = None

\* rollout() is entered, directly or from predict() with the first example
\* of the data loader; nsteps is metadata['sequence_length'] - 6 there.
RolloutEnter ==
  /\ rpc = "idle"
  /\ ppc \in {"none", "example"}
  /\ \E pos \in [Particles -> Trajectories], lab \in [Particles -> PosValues],
        types \in [Particles -> ParticleTypeValues], n \in 0..MaxSteps :
       /\ position' = pos
       /\ label' = lab
       /\ particle_types' = types
       /\ nsteps' = n
       /\ initial_positions' = SliceWindow(pos)
       /\ current_positions' = SliceWindow(pos)
  /\ predictions' = <<>>
  /\ step_r' = 0
  /\ rpc' = "loop"
  /\ ppc' = IF ppc = "example" THEN "in_rollout" ELSE ppc
  /\ examples_read' = IF ppc = "example" THEN examples_read + 1
                      ELSE examples_read
  /\ UNCHANGED <<output_dict, mode, p_model_file, files, p_loaded,
                 output_path_exists, made_output_path, rollout_files,
                 tvars, mvars, lvars>>

\* One pass of `for step in range(nsteps)`.
RolloutStep ==
  /\ rpc = "loop"
  /\ step_r < nsteps
  /\ \E net \in [Particles -> PosValues] :
       LET next_position == NextPosition(net, label, particle_types) IN
       /\ predictions' = Append(predictions, next_position)
       /\ current_positions' = ShiftWindow(current_positions, next_position)
  /\ step_r' = step_r + 1
  /\ UNCHANGED <<rpc, position, label, particle_types, nsteps,
                 initial_positions, output_dict, pvars, tvars, mvars,
                 lvars, files>>

\* After the loop: torch.stack(predictions) raises on an empty list;
\* otherwise the output dictionary is built and returned.
RolloutReturn ==
  /\ rpc = "loop"
  /\ step_r = nsteps
  /\ IF predictions = <<>>
     THEN /\ rpc' = "error"
          /\ UNCHANGED output_dict
     ELSE /\ rpc' = "done"
          /\ output_dict' =
               [kind |-> "rollout",
                initial_positions |-> Permute(initial_positions),
                predicted_rollout |-> predictions,
                ground_truth_rollout |-> label,
                particle_types |-> particle_types]
  /\ UNCHANGED <<position, label, particle_types, nsteps, initial_positions,
                 current_positions, predictions, step_r, pvars, tvars, mvars,
                 lvars, files>>

RolloutNext == RolloutEnter \/ RolloutStep \/ RolloutReturn

PredictIdle ==
  /\ ppc = "none"
  /\ mode = "rollout"
  /\ p_model_file = None
  /\ p_loaded = None
  /\ output_path_exists = FALSE
  /\ made_output_path = FALSE
  /\ examples_read = 0
  /\ rollout_files = {}

InitRollout ==
  RolloutIdle /\ PredictIdle /\ TrainIdle /\ MlpIdle /\ LossIdle
    /\ files = {}

SpecRollout == InitRollout /\ [][RolloutNext]_vars

\* ----------------------------------------------------------------- predict

\* PredictModelFound testing nothing.
PredictModelFoundAlways(fs, name) == TRUE

\* The test of line 139 on flags["model_path"] + flags["model_file"].
PredictModelFound(fs, name) == PathExists(fs, name)

\* The start of predict(): metadata and simulator are built, then the
\* checkpoint is loaded if its path exists, else FileNotFoundError.
PredictLoad ==
  /\ ppc = "start"
  /\ IF PredictModelFound(files, p_model_file)
     THEN /\ p_loaded' = p_model_file
          /\ ppc' = "makedirs"
     ELSE /\ ppc' = "model_not_found"
          /\ UNCHANGED p_loaded
  /\ UNCHANGED <<mode, p_model_file, files, output_path_exists,
                 made_output_path, examples_read, rollout_files, rvars,
                 tvars, mvars, lvars>>

\* if not os.path.exists(output_path): os.makedirs(output_path)
PredictMakeDirs ==
  /\ ppc = "makedirs"
  /\ output_path_exists' = TRUE
  /\ made_output_path' = ~output_path_exists
  /\ ppc' = "example"
  /\ UNCHANGED <<mode, p_model_file, files, p_loaded, examples_read,
                 rollout_files, rvars, tvars, mvars, lvars>>

\* The data loader yields nothing: the loop body never runs and
\* torch.cat(eval_loss) raises on the empty list.
PredictNoExample ==
  /\ ppc = "example"
  /\ ppc' = "failed"
  /\ UNCHANGED <<mode, p_model_file, files, p_loaded, output_path_exists,
                 made_output_path, examples_read, rollout_files, rvars,
                 tvars, mvars, lvars>>

\* rollout() has returned or raised: in mode rollout its dictionary is
\* pickled to rollout_0.pkl; the loop stops at the second example.
PredictAfterRollout ==
  /\ ppc = "in_rollout"
  /\ rpc \in {"done", "error"}
  /\ IF rpc = "error"
     THEN /\ ppc' = "failed"
          /\ UNCHANGED rollout_files
     ELSE /\ ppc' = "done"
          /\ rollout_files' =
               IF mode = "rollout" THEN rollout_files \cup {0}
               ELSE rollout_files
  /\ UNCHANGED <<mode, p_model_file, files, p_loaded, output_path_exists,
                 made_output_path, examples_read, rvars, tvars, mvars, lvars>>

PredictNext ==
  \/ PredictLoad
  \/ PredictMakeDirs
  \/ PredictNoExample
  \/ PredictAfterRollout
  \/ RolloutNext

\* The checkpoints in model_path when predict() starts, and its flags.
InitPredict ==
  /\ RolloutIdle
  /\ TrainIdle
  /\ MlpIdle
  /\ LossIdle
  /\ ppc = "start"
  /\ mode \in {"valid", "rollout"}
  /\ files \in SUBSET {ModelFile(n) : n \in StepPool \ {0}}
  /\ p_model_file \in {Latest} \cup {ModelFile(n) : n \in {3, 25}}
  /\ p_loaded = None
  /\ output_path_exists \in BOOLEAN
  /\ made_output_path = FALSE
  /\ examples_read = 0
  /\ rollout_files = {}

SpecPredict == InitPredict /\ [][PredictNext]_vars

\* ------------------------------------------------------------------- train

\* flags["is_main"], set by utils.init_distritubed_mode: rank 0.
IsMain(w) == w = 0

\* The workers that run train(): every rank when is_cuda, else rank 0.
Active(w) == w = 0 \/ is_cuda

\* glob.glob(f'{model_path}{exp_id}-model-*pt')
GlobModels(fs) == {f \in fs : f.kind = "model"}

\* ModelNumber with (\d) for (\d+): the first digit only.
ModelNumberFirstDigit(f) == f.num[1]

\* int(expr.search(fname).groups()[0]), expr = '.<exp_id>-model-(\d+).pt'
ModelNumber(f) == IntOf(f.num)

\* if model_num > max_model_number
IsNewer(model_num, max_model_number) == model_num > max_model_number

RECURSIVE MaxModelNumber(_, _)
\* The loop over fnames, max_model_number starting at 0.
MaxModelNumber(fnames, max_model_number) ==
  IF fnames = {} THEN max_model_number
  ELSE LET fname == CHOOSE f \in fnames : TRUE
           model_num == ModelNumber(fname)
       IN MaxModelNumber(fnames \ {fname},
                         IF IsNewer(model_num, max_model_number)
                         THEN model_num ELSE max_model_number)

\* Lines 241-252: both names are reset to the latest step when both are
\* "latest", and are left as given otherwise.
ResolveLatest(fs, mf, tsf) ==
  IF mf = Latest /\ tsf = Latest
  THEN LET n == MaxModelNumber(GlobModels(fs), 0)
       IN <<ModelFile(n), TrainStateFile(n)>>
  ELSE <<mf, tsf>>

\* CheckpointFound testing the model file alone.
CheckpointFoundModelOnly(fs, mf, tsf) == PathExists(fs, mf)

\* Line 254: both paths exist.
CheckpointFound(fs, mf, tsf) == PathExists(fs, mf) /\ PathExists(fs, tsf)

\* train_state["global_train_state"]["step"] of a train-state file: the
\* step it was saved at, which line 374 also puts in its name.
SavedStep(tsf) == IntOf(tsf.num)

\* Lines 212-280 for worker w: the checkpoint is resolved and, if both of
\* its files exist, loaded; else a message with both paths is logged and
\* training starts from scratch.
TrainLoad(w) ==
  /\ tpc[w] = "start"
  /\ LET names == IF model_file[w] = None
                  THEN <<model_file[w], train_state_file[w]>>
                  ELSE ResolveLatest(files, model_file[w],
                                     train_state_file[w])
         found == model_file[w] # None
                    /\ CheckpointFound(files, names[1], names[2])
     IN /\ model_file' = [model_file EXCEPT ![w] = names[1]]
        /\ train_state_file' = [train_state_file EXCEPT ![w] = names[2]]
        /\ used_latest' =
             [used_latest EXCEPT
                ![w] = model_file[w] = Latest /\ train_state_file[w] = Latest]
        /\ loaded' = [loaded EXCEPT
                        ![w] = IF found
                               THEN [kind |-> "pair", model |-> names[1],
                                     state |-> names[2]]
                               ELSE None]
        /\ step' = [step EXCEPT
                      ![w] = IF found THEN SavedStep(names[2]) ELSE 0]
        /\ load_msg' = [load_msg EXCEPT
                          ![w] = IF model_file[w] # None /\ ~found
                                 THEN [kind |-> "not found",
                                       model |-> names[1],
                                       state |-> names[2]]
                                 ELSE None]
  /\ tpc' = [tpc EXCEPT ![w] = "while"]
  /\ UNCHANGED <<is_cuda, ntraining_steps, nsave_steps, nlog_steps, nbatches,
                 batch_i, opt_steps, steps, writes, interrupted, files, rvars, pvars, mvars, lvars>>

\* `while not_reached_nsteps:` a new epoch: the barrier is entered when
\* is_cuda, else the data loader is iterated from its start.
TrainWhile(w) ==
  /\ tpc[w] = "while"
  /\ tpc' = [tpc EXCEPT ![w] = IF is_cuda THEN "barrier" ELSE "for"]
  /\ batch_i' = [batch_i EXCEPT ![w] = 0]
  /\ UNCHANGED <<is_cuda, ntraining_steps, nsave_steps, nlog_steps, nbatches,
                 model_file, train_state_file, used_latest, loaded, load_msg,
                 step, opt_steps, steps, writes, interrupted, files, rvars, pvars, mvars, lvars>>

\* torch.distributed.barrier(): no worker leaves before every worker of
\* the group has entered.
BarrierRelease ==
  /\ is_cuda
  /\ \A w \in Ranks : tpc[w] = "barrier"
  /\ tpc' = [w \in Ranks |-> "for"]
  /\ UNCHANGED <<is_cuda, ntraining_steps, nsave_steps, nlog_steps, nbatches,
                 model_file, train_state_file, used_latest, loaded, load_msg,
                 step, batch_i, opt_steps, steps, writes, interrupted, files, rvars, pvars, mvars, lvars>>

\* The data loader yields the next batch: lines 310-356, the loss and one
\* optimizer step.
TrainBatch(w) ==
  /\ tpc[w] = "for"
  /\ batch_i[w] < nbatches
  /\ batch_i' = [batch_i EXCEPT ![w] = @ + 1]
  /\ opt_steps' = [opt_steps EXCEPT ![w] = @ + 1]
  /\ tpc' = [tpc EXCEPT ![w] = "log"]
  /\ UNCHANGED <<is_cuda, ntraining_steps, nsave_steps, nlog_steps, nbatches,
                 model_file, train_state_file, used_latest, loaded, load_msg,
                 step, steps, writes, interrupted, files, rvars, pvars, mvars, lvars>>

\* The data loader is exhausted: back to the head of the while loop.
TrainEpochEnd(w) ==
  /\ tpc[w] = "for"
  /\ batch_i[w] >= nbatches
  /\ tpc' = [tpc EXCEPT ![w] = "while"]
  /\ UNCHANGED <<is_cuda, ntraining_steps, nsave_steps, nlog_steps, nbatches,
                 model_file, train_state_file, used_latest, loaded, load_msg,
                 step, batch_i, opt_steps, steps, writes, interrupted, files, rvars, pvars, mvars, lvars>>

\* Lines 359-364 without the collective: at a logging step a worker of a
\* process group enters torch.distributed.reduce, a lone worker logs.
TrainLog(w) ==
  /\ tpc[w] = "log"
  /\ IF step[w] % nlog_steps = 0
     THEN IF is_cuda
          THEN /\ tpc' = [tpc EXCEPT ![w] = "reduce"]
               /\ UNCHANGED steps
          ELSE /\ tpc' = [tpc EXCEPT ![w] = "save"]
               /\ steps' = [steps EXCEPT ![w] = Append(@, step[w])]
     ELSE /\ tpc' = [tpc EXCEPT ![w] = "save"]
          /\ UNCHANGED steps
  /\ UNCHANGED <<is_cuda, ntraining_steps, nsave_steps, nlog_steps, nbatches,
                 model_file, train_state_file, used_latest, loaded, load_msg,
                 step, batch_i, opt_steps, writes, interrupted, files, rvars, pvars, mvars, lvars>>

\* torch.distributed.reduce(loss, dst=0): a collective every worker of the
\* group takes part in; each then logs and records the step.
ReduceRelease ==
  /\ is_cuda
  /\ \A w \in Ranks : tpc[w] = "reduce"
  /\ tpc' = [w \in Ranks |-> "save"]
  /\ steps' = [w \in Ranks |-> Append(steps[w], step[w])]
  /\ UNCHANGED <<is_cuda, ntraining_steps, nsave_steps, nlog_steps, nbatches,
                 model_file, train_state_file, used_latest, loaded, load_msg,
                 step, batch_i, opt_steps, writes, interrupted, files, rvars, pvars, mvars, lvars>>

\* The loss curve's file, f'{model_path}{exp_id}-loss.png'.
LossPlot == [kind |-> "loss-png", num |-> <<>>]

\* Lines 366-372: the main worker saves the model at a saving step.
TrainSaveModel(w) ==
  /\ tpc[w] = "save"
  /\ IF IsMain(w) /\ step[w] % nsave_steps = 0
     THEN /\ files' = files \cup {ModelFile(step[w])}
          /\ writes' = writes \cup {<<w, ModelFile(step[w])>>}
          /\ tpc' = [tpc EXCEPT ![w] = "save_state"]
     ELSE /\ tpc' = [tpc EXCEPT ![w] = "check"]
          /\ UNCHANGED <<files, writes>>
  /\ UNCHANGED <<is_cuda, ntraining_steps, nsave_steps, nlog_steps, nbatches,
                 model_file, train_state_file, used_latest, loaded, load_msg,
                 step, batch_i, opt_steps, steps, interrupted,
                 rvars, pvars, mvars, lvars>>

\* Lines 373-374: then it saves the train state of the same step.
TrainSaveState(w) ==
  /\ tpc[w] = "save_state"
  /\ files' = files \cup {TrainStateFile(step[w])}
  /\ writes' = writes \cup {<<w, TrainStateFile(step[w])>>}
  /\ tpc' = [tpc EXCEPT ![w] = "check"]
  /\ UNCHANGED <<is_cuda, ntraining_steps, nsave_steps, nlog_steps, nbatches,
                 model_file, train_state_file, used_latest, loaded, load_msg,
                 step, batch_i, opt_steps, steps, interrupted,
                 rvars, pvars, mvars, lvars>>

\* Lines 377-381: the loop is left at step >= ntraining_steps, else the
\* step is counted and the next batch is taken.
TrainCheck(w) ==
  /\ tpc[w] = "check"
  /\ IF step[w] >= ntraining_steps
     THEN /\ tpc' = [tpc EXCEPT ![w] = "plot"]
          /\ UNCHANGED step
     ELSE /\ tpc' = [tpc EXCEPT ![w] = "for"]
          /\ step' = [step EXCEPT ![w] = @ + 1]
  /\ UNCHANGED <<is_cuda, ntraining_steps, nsave_steps, nlog_steps, nbatches,
                 model_file, train_state_file, used_latest, loaded, load_msg,
                 batch_i, opt_steps, steps, writes, interrupted, files,
                 rvars, pvars, mvars, lvars>>

\* Lines 383-387: every worker that leaves the loop plots the losses and
\* saves the figure under model_path.
TrainPlot(w) ==
  /\ tpc[w] = "plot"
  /\ files' = files \cup {LossPlot}
  /\ writes' = writes \cup {<<w, LossPlot>>}
  /\ tpc' = [tpc EXCEPT ![w] = "done"]
  /\ UNCHANGED <<is_cuda, ntraining_steps, nsave_steps, nlog_steps, nbatches,
                 model_file, train_state_file, used_latest, loaded, load_msg,
                 step, batch_i, opt_steps, steps, interrupted,
                 rvars, pvars, mvars, lvars>>

\* The statements of the try block a KeyboardInterrupt can arrive at.
InTry == {"while", "barrier", "for", "log", "reduce", "save", "save_state",
          "check", "plot"}

\* except KeyboardInterrupt: pass
TrainInterrupt(w) ==
  /\ tpc[w] \in InTry
  /\ tpc' = [tpc EXCEPT ![w] = "done"]
  /\ interrupted' = [interrupted EXCEPT ![w] = TRUE]
  /\ UNCHANGED <<is_cuda, ntraining_steps, nsave_steps, nlog_steps, nbatches,
                 model_file, train_state_file, used_latest, loaded, load_msg,
                 step, batch_i, opt_steps, steps, writes, files,
                 rvars, pvars, mvars, lvars>>

TrainNext ==
  \/ \E w \in Ranks :
       \/ TrainLoad(w)
       \/ TrainWhile(w)
       \/ TrainBatch(w)
       \/ TrainEpochEnd(w)
       \/ TrainLog(w)
       \/ TrainSaveModel(w)
       \/ TrainSaveState(w)
       \/ TrainCheck(w)
       \/ TrainPlot(w)
       \/ TrainInterrupt(w)
  \/ BarrierRelease
  \/ ReduceRelease

\* What every run of train() starts from, the flags and files apart.
TrainStart ==
  /\ RolloutIdle
  /\ PredictIdle
  /\ MlpIdle
  /\ LossIdle
  /\ used_latest = [w \in Ranks |-> FALSE]
  /\ loaded = [w \in Ranks |-> None]
  /\ load_msg = [w \in Ranks |-> None]
  /\ tpc = [w \in Ranks |-> IF Active(w) THEN "start" ELSE "absent"]
  /\ step = [w \in Ranks |-> 0]
  /\ batch_i = [w \in Ranks |-> 0]
  /\ opt_steps = [w \in Ranks |-> 0]
  /\ steps = [w \in Ranks |-> <<>>]
  /\ writes = {}
  /\ interrupted = [w \in Ranks |-> FALSE]

\* The values of --nsave_steps and --nlog_steps.
EveryValues == {1, 2}

\* The largest --ntraining_steps.
MaxTrainingSteps == 2

\* The most batches the data loader yields in one epoch.
MaxBatches == 2

\* A complete checkpoint of an earlier run.
Checkpoint(n) == {ModelFile(n), TrainStateFile(n)}

\* Training, alone or in a process group, from an empty model_path or
\* from the complete checkpoint of step 1, with the default file flags.
InitTrain ==
  /\ is_cuda \in BOOLEAN
  /\ TrainStart
  /\ ntraining_steps \in 0..MaxTrainingSteps
  /\ nsave_steps \in EveryValues
  /\ nlog_steps \in EveryValues
  /\ nbatches \in 0..MaxBatches
  /\ files \in {{}, Checkpoint(1)}
  /\ model_file = [w \in Ranks |-> Latest]
  /\ train_state_file = [w \in Ranks |-> Latest]

SpecTrain == InitTrain /\ [][TrainNext]_vars

\* The statements worker w runs by itself, an interrupt apart.
TrainStep(w) ==
  \/ TrainLoad(w)
  \/ TrainWhile(w)
  \/ TrainBatch(w)
  \/ TrainEpochEnd(w)
  \/ TrainLog(w)
  \/ TrainSaveModel(w)
  \/ TrainSaveState(w)
  \/ TrainCheck(w)
  \/ TrainPlot(w)

\* train() with its scheduling: every worker is a running process that
\* takes its next statement, and a collective every worker has entered
\* completes; a KeyboardInterrupt may or may not arrive.
SpecTrainFair ==
  /\ InitTrain
  /\ [][TrainNext]_vars
  /\ \A w \in Ranks : WF_vars(TrainStep(w))
  /\ WF_vars(BarrierRelease)
  /\ WF_vars(ReduceRelease)

\* The values of --model_file and --train_state_file.
ModelFileValues == {None, Latest, ModelFile(3), ModelFile(25)}
TrainStateFileValues == {Latest, TrainStateFile(3), TrainStateFile(25)}

\* Resuming: any files of the steps of StepPool in model_path, any file
\* flags (the same for every worker), and a short training run.
InitResume ==
  /\ is_cuda \in BOOLEAN
  /\ TrainStart
  /\ ntraining_steps \in {0, 1}
  /\ nsave_steps = 1
  /\ nlog_steps = 1
  /\ nbatches = 1
  /\ files \in SUBSET ({ModelFile(n) : n \in StepPool}
                         \cup {TrainStateFile(n) : n \in StepPool})
  /\ \E mf \in ModelFileValues, tsf \in TrainStateFileValues :
       /\ model_file = [w \in Ranks |-> mf]
       /\ train_state_file = [w \in Ranks |-> tsf]

SpecResume == InitResume /\ [][TrainNext]_vars

\* --------------------------------------------------------------- build_mlp

\* The most hidden layers asked of build_mlp.
MaxHidden == 2

\* Layer widths.
SizeValues == {1, 2}

\* hidden_layer_sizes: the lists of at most MaxHidden widths.
HiddenLists == UNION {[1..n -> SizeValues] : n \in 0..MaxHidden}

\* output_size: omitted (None, the empty tuple here) or an integer.
OutputSizeValues == {<<>>, <<0>>, <<1>>, <<2>>}

\* Truthy as `output_size is not None`.
TruthyNotNone(output_size) == output_size # <<>>

\* `if output_size:` None and 0 are both false.
Truthy(output_size) == output_size # <<>> /\ output_size[1] # 0

\* Lines 25-27: [input_size] + hidden_layer_sizes, and output_size appended.
LayerSizes(input_size, hidden_layer_sizes, output_size) ==
  <<input_size>> \o hidden_layer_sizes
     \o (IF Truthy(output_size) THEN <<output_size[1]>> ELSE <<>>)

\* Lines 38-42: NN-i and Act-i added for i in range(nlayers).
RECURSIVE AddModules(_, _, _)
AddModules(layer_sizes, act, n) ==
  IF n = 0 THEN <<>>
  ELSE AddModules(layer_sizes, act, n - 1)
         \o << [name |-> "NN", i |-> n - 1,
                in_features |-> layer_sizes[n],
                out_features |-> layer_sizes[n + 1]],
               [name |-> "Act", i |-> n - 1, fn |-> act[n]] >>

\* build_mlp: the Sequential it returns, or the IndexError of act[-1] on
\* an empty list.
build_mlp(input_size, hidden_layer_sizes, output_size, output_activation, activation) ==
  LET layer_sizes == LayerSizes(input_size, hidden_layer_sizes, output_size)
      nlayers == Len(layer_sizes) - 1
      act0 == [i \in 1..nlayers |-> activation]
  IN IF nlayers = 0
     THEN [kind |-> "IndexError", modules |-> <<>>]
     ELSE [kind |-> "Sequential",
           modules |->
             AddModules(layer_sizes,
                        [act0 EXCEPT ![nlayers] = output_activation],
                        nlayers)]

\* One call of build_mlp.
BuildMlpCall ==
  /\ mpc = "call"
  /\ mlp' = build_mlp(mlp_args.input_size, mlp_args.hidden_layer_sizes,
                      mlp_args.output_size, mlp_args.output_activation,
                      mlp_args.activation)
  /\ mpc' = IF mlp'.kind = "IndexError" THEN "raised" ELSE "returned"
  /\ UNCHANGED <<mlp_args, rvars, pvars, tvars, lvars, files>>

InitMlp ==
  /\ RolloutIdle
  /\ PredictIdle
  /\ TrainIdle
  /\ LossIdle
  /\ files = {}
  /\ mpc = "call"
  /\ mlp = None
  /\ mlp_args \in [input_size : {1, 2, 3},
                   hidden_layer_sizes : HiddenLists,
                   output_size : OutputSizeValues,
                   output_activation : {"Identity", "Tanh"},
                   activation : {"ReLU"}]

SpecMlp == InitMlp /\ [][BuildMlpCall]_vars

\* -------------------------------------------------------------------- loss

\* The components of an acceleration, and the values one can take.
Dims == {1, 2}
AccValues == {0, 1}

RECURSIVE SumOver(_, _)
\* tensor.sum() over the entries S of f.
SumOver(S, f) ==
  IF S = {} THEN 0
  ELSE LET x == CHOOSE y \in S : TRUE IN f[x] + SumOver(S \ {x}, f)

\* Line 320: non_kinematic_mask = (particle_type != KINEMATIC_PARTICLE_ID)
NonKinematicMask(particle_type) ==
  [p \in Particles |-> particle_type[p] # KINEMATIC_PARTICLE_ID]

\* Floating-point division of two integer-valued sums: a ratio, or inf or
\* nan on a zero divisor.
FloatDiv(a, b) ==
  IF b # 0 THEN [kind |-> "float", num |-> a, den |-> b]
  ELSE IF a = 0 THEN [kind |-> "nan", num |-> 0, den |-> 0]
  ELSE [kind |-> "inf", num |-> a, den |-> 0]

\* Lines 340-346: the squared error summed over the components, zeroed
\* on kinematic particles, summed and divided by num_non_kinematic.
Loss(pred_acc, target_acc, particle_type) ==
  LET non_kinematic_mask == NonKinematicMask(particle_type)
      sq == [p \in Particles |->
               [d \in Dims |-> (pred_acc[p][d] - target_acc[p][d])
                                 * (pred_acc[p][d] - target_acc[p][d])]]
      per_particle == [p \in Particles |-> SumOver(Dims, sq[p])]
      num_non_kinematic ==
        SumOver(Particles,
                [p \in Particles |-> IF non_kinematic_mask[p] THEN 1 ELSE 0])
      masked == [p \in Particles |->
                   IF non_kinematic_mask[p] THEN per_particle[p] ELSE 0]
  IN FloatDiv(SumOver(Particles, masked), num_non_kinematic)

\* The loss of one training step, from the accelerations that
\* predict_accelerations returned for the batch.
TrainLoss ==
  /\ lpc = "batch"
  /\ loss' = Loss(batch.pred_acc, batch.target_acc, batch.particle_type)
  /\ lpc' = "loss"
  /\ UNCHANGED <<batch, rvars, pvars, tvars, mvars, files>>

InitLoss ==
  /\ RolloutIdle
  /\ PredictIdle
  /\ TrainIdle
  /\ MlpIdle
  /\ files = {}
  /\ lpc = "batch"
  /\ loss = None
  /\ batch \in [particle_type : [Particles -> ParticleTypeValues],
                pred_acc : [Particles -> [Dims -> AccValues]],
                target_acc : [Particles -> [Dims -> AccValues]]]

SpecLoss == InitLoss /\ [][TrainLoss]_vars

\* ------------------------------------------------------------------ claims

\* C1: for every window of length C and every nsteps >= 0, rollout()
\* returns exactly nsteps predicted positions, and after each step the
\* window current_positions has exactly C entries.
C1_RolloutProducesNsteps ==
  /\ rpc # "idle" =>
       \A p \in Particles :
         Len(current_positions[p]) = INPUT_SEQUENCE_LENGTH
  /\ rpc \in {"done", "error"} =>
       /\ rpc = "done"
       /\ Len(output_dict.predicted_rollout) = nsteps

\* C2: in rollout(), the position appended for a kinematic particle, and
\* fed back into the window, is its ground truth and not the network's
\* output.
C2_KinematicFollowsGroundTruth ==
  \A p \in Particles :
    particle_types[p] = KINEMATIC_PARTICLE_ID =>
      \A k \in 1..Len(predictions) :
        /\ predictions[k][p] = label[p]
        /\ current_positions[p][INPUT_SEQUENCE_LENGTH
                                  - (Len(predictions) - k)] = label[p]

\* C3: in train(), with model_file and train_state_file both "latest" and
\* at least one model file in model_path, the model file is resolved to
\* the existing one of the greatest numeric step, and the train-state file
\* to the name with the same step suffix.
C3_LatestIsMaxStep ==
  [][\A w \in Ranks :
       ( /\ tpc[w] = "start"
         /\ tpc'[w] # "start"
         /\ model_file[w] = Latest
         /\ train_state_file[w] = Latest
         /\ GlobModels(files) # {} )
       => /\ model_file'[w] \in GlobModels(files)
          /\ \A f \in GlobModels(files) :
               IntOf(f.num) <= IntOf(model_file'[w].num)
          /\ train_state_file'[w] =
               [kind |-> "train-state", num |-> model_file'[w].num]]_vars

\* C3's case: steps 3, 10 and 25 are in model_path and "latest" has been
\* resolved to the model file of step 25.
C3_Witness ==
  /\ used_latest[0]
  /\ tpc[0] = "while"
  /\ {ModelFile(3), ModelFile(10), ModelFile(25)} \subseteq files
  /\ model_file[0] = ModelFile(25)
  /\ train_state_file[0] = TrainStateFile(25)

\* C4: predict() with model_file "latest" and model files in model_path
\* loads the one of the greatest step, as train() does.
C4_PredictResolvesLatest ==
  ( /\ ppc \notin {"none", "start"}
    /\ p_model_file = Latest
    /\ GlobModels(files) # {} )
  => /\ ppc # "model_not_found"
     /\ p_loaded = ModelFile(MaxModelNumber(GlobModels(files), 0))

\* C5: train() loads a model file and a train-state file only when they
\* carry the same step suffix.
C5_LoadedInLockStep ==
  \A w \in Ranks :
    loaded[w] # None => loaded[w].model.num = loaded[w].state.num

\* C6 as stated: in train(), a missing model or train-state file is fatal:
\* no optimizer step is taken and no checkpoint is written.
C6_MissingIsFatal ==
  \A w \in Ranks :
    load_msg[w] # None =>
      /\ opt_steps[w] = 0
      /\ ~\E f \in files : <<w, f>> \in writes

\* C6 amended: in train(), with model_file not None, when the resolved
\* model file or train-state file does not exist, nothing is loaded, a
\* message with both attempted paths is logged, and training goes on from
\* scratch at step 0.
C6_MissingStartsFromScratch ==
  [][\A w \in Ranks :
       ( /\ tpc[w] = "start"
         /\ tpc'[w] # "start"
         /\ model_file[w] # None
         /\ LET names == ResolveLatest(files, model_file[w],
                                       train_state_file[w])
            IN ~(PathExists(files, names[1]) /\ PathExists(files, names[2])) )
       => /\ loaded'[w] = None
          /\ step'[w] = 0
          /\ load_msg'[w] # None
          /\ load_msg'[w].model = model_file'[w]
          /\ load_msg'[w].state = train_state_file'[w]
          /\ tpc'[w] = "while"]_vars

\* C6's case: the train-state file of the requested model was missing, and
\* training took an optimizer step and saved the model of step 0.
C6_Witness ==
  /\ load_msg[0] # None
  /\ load_msg[0].model \in files
  /\ opt_steps[0] > 0
  /\ <<0, ModelFile(0)>> \in writes

\* C7: in predict(), when model_path + model_file does not exist the call
\* ends with the model-not-found error before anything else: no example is
\* read, rollout() is not entered, the output directory is not created and
\* no rollout file is written.
C7_ModelNotFoundFirst ==
  /\ (ppc \notin {"none", "start"} /\ ~PathExists(files, p_model_file))
       => ppc = "model_not_found"
  /\ ppc = "model_not_found" =>
       /\ p_loaded = None
       /\ examples_read = 0
       /\ rpc = "idle"
       /\ predictions = <<>>
       /\ ~made_output_path
       /\ rollout_files = {}

\* C7's case: other model files exist, the requested one does not, and
\* predict() has raised.
C7_Witness ==
  /\ ppc = "model_not_found"
  /\ p_model_file = ModelFile(25)
  /\ ModelFile(3) \in files
  /\ ~output_path_exists

\* C8: after a KeyboardInterrupt of the worker that saves, no model file
\* is visible in model_path without the train-state file of its step.
C8_NoPartialCheckpoint ==
  \A w \in Ranks :
    (IsMain(w) /\ interrupted[w]) =>
      \A f \in GlobModels(files) :
        [kind |-> "train-state", num |-> f.num] \in files

\* C9: only the main worker writes files under model_path, and no file is
\* written by two workers.
C9_OnlyMainWrites ==
  /\ \A wr \in writes : IsMain(wr[1])
  /\ \A a, b \in writes : a[2] = b[2] => a[1] = b[1]

\* C10 as stated: build_mlp raises whenever hidden_layer_sizes is empty,
\* whatever output_size is.
C10_EmptyHiddenFails ==
  (mpc # "call" /\ mlp_args.hidden_layer_sizes = <<>>) => mpc = "raised"

\* C10 amended: with hidden_layer_sizes empty, build_mlp raises when
\* output_size is omitted or 0, and otherwise returns one linear layer
\* input_size -> output_size followed by the output activation.
C10_EmptyHiddenFailsWithoutOutput ==
  (mpc # "call" /\ mlp_args.hidden_layer_sizes = <<>>) =>
    IF mlp_args.output_size \in {<<>>, <<0>>}
    THEN mpc = "raised"
    ELSE /\ mpc = "returned"
         /\ mlp.modules =
              << [name |-> "NN", i |-> 0,
                  in_features |-> mlp_args.input_size,
                  out_features |-> mlp_args.output_size[1]],
                 [name |-> "Act", i |-> 0,
                  fn |-> mlp_args.output_activation] >>

\* C10's case: build_mlp has raised on an empty hidden_layer_sizes with
\* output_size 0.
C10_Witness ==
  /\ mpc = "raised"
  /\ mlp_args.hidden_layer_sizes = <<>>
  /\ mlp_args.output_size = <<0>>

\* The widths C11 expects: input_size, the hidden widths, and output_size
\* whenever one is given.
C11_Sizes ==
  <<mlp_args.input_size>> \o mlp_args.hidden_layer_sizes
     \o (IF mlp_args.output_size # <<>>
         THEN <<mlp_args.output_size[1]>> ELSE <<>>)

\* C11: for a non-empty hidden_layer_sizes, build_mlp returns Linear, Act,
\* Linear, Act, ... with the linear widths input_size -> h1 -> ... -> hk
\* (-> output_size when one is given), every linear layer but the last
\* followed by the hidden activation and the last by the output
\* activation; a given output_size always yields a final layer that wide.
C11_AlternatingLayers ==
  (mpc # "call" /\ mlp_args.hidden_layer_sizes # <<>>) =>
    LET n == Len(C11_Sizes) - 1 IN
    /\ mpc = "returned"
    /\ Len(mlp.modules) = 2 * n
    /\ \A i \in 1..n :
         /\ mlp.modules[2 * i - 1] =
              [name |-> "NN", i |-> i - 1,
               in_features |-> C11_Sizes[i],
               out_features |-> C11_Sizes[i + 1]]
         /\ mlp.modules[2 * i] =
              [name |-> "Act", i |-> i - 1,
               fn |-> IF i = n THEN mlp_args.output_activation
                      ELSE mlp_args.activation]

\* The non-kinematic particles of the batch.
C12_NonKinematic ==
  {p \in Particles : batch.particle_type[p] # KINEMATIC_PARTICLE_ID}

\* The squared error of particle p summed over the components.
C12_Error ==
  [p \in Particles |->
     SumOver(Dims, [d \in Dims |->
                      (batch.pred_acc[p][d] - batch.target_acc[p][d])
                        * (batch.pred_acc[p][d] - batch.target_acc[p][d])])]

\* C12: the loss of a training step is the squared error summed over the
\* non-kinematic particles and divided by their number, whatever the
\* error of the kinematic particles is, and it is a number for every
\* batch, one of kinematic particles only included.
C12_LossExcludesKinematic ==
  lpc = "loss" =>
    /\ loss.kind = "float"
    /\ loss.num * Cardinality(C12_NonKinematic)
         = SumOver(C12_NonKinematic, C12_Error) * loss.den

\* The positions of particle p so far: the first C of the input, then
\* the positions appended to predictions.
C13_History(p) ==
  SubSeq(position[p], 1, INPUT_SEQUENCE_LENGTH)
    \o [k \in 1..Len(predictions) |-> predictions[k][p]]

\* C13: after k steps of rollout() the window of each particle is the last
\* C entries of its first C input positions followed by the k appended
\* positions (each step drops the oldest entry and appends the new one),
\* and the initial_positions of the output are the first C input positions.
C13_RingWindow ==
  /\ rpc # "idle" =>
       /\ Len(predictions) = step_r
       /\ \A p \in Particles :
            current_positions[p] =
              SubSeq(C13_History(p), Len(predictions) + 1,
                     Len(predictions) + INPUT_SEQUENCE_LENGTH)
  /\ rpc = "done" =>
       /\ Len(output_dict.initial_positions) = INPUT_SEQUENCE_LENGTH
       /\ \A p \in Particles : \A t \in 1..INPUT_SEQUENCE_LENGTH :
            output_dict.initial_positions[t][p] = position[p][t]

\* C13's case: two steps on the window 1..6 have appended 0 and then 1.
C13_Witness ==
  /\ rpc = "done"
  /\ nsteps = 2
  /\ position[1] = <<1, 2, 3, 4, 5, 6, 7>>
  /\ current_positions[1] = <<3, 4, 5, 6, 0, 1>>

\* The step worker w started from: 0, or the step of the train state it
\* loaded.
StartStep(w) == IF loaded[w] = None THEN 0 ELSE SavedStep(loaded[w].state)

\* C14: the training loop of a lone worker ends for every ntraining_steps,
\* start step and data loader, one that yields no batch included, and
\* when it ends without an interrupt the step counter is
\* max(start step, ntraining_steps).
C14_LoopTerminates ==
  /\ ~is_cuda => <>(tpc[0] = "done")
  /\ [](\A w \in Ranks :
          (tpc[w] \in {"plot", "done"} /\ ~interrupted[w]) =>
            step[w] = IF StartStep(w) > ntraining_steps
                      THEN StartStep(w) ELSE ntraining_steps)

\* The collective calls of the loop: torch.distributed.barrier() and
\* torch.distributed.reduce().
Collective == {"barrier", "reduce"}

\* C15: in distributed training no worker waits at a collective call for a
\* worker that has left train() and so never enters it; two workers in the
\* same collective are at the same step, and workers that have left the
\* loop have left it at the same step.
C15_NoWorkerBlocksForever ==
  is_cuda =>
    \A w, v \in Ranks :
      /\ ~(tpc[w] \in Collective /\ tpc[v] = "done")
      /\ (tpc[w] \in Collective /\ tpc[v] = tpc[w]) => step[w] = step[v]
      /\ (tpc[w] \in {"plot", "done"} /\ tpc[v] \in {"plot", "done"})
           => step[w] = step[v]

====
